---- MODULE Spec2Model ----
(***************************************************************************)
(* Model of pgbouncer_config_reload/cli.py: a watchdog Observer thread     *)
(* that calls ConfigmapHandler.on_created for filesystem creation events,  *)
(* sleeps for the debounce timeout and issues RELOAD; to pgbouncer, and    *)
(* the main thread that validates the watch paths, starts the observer,    *)
(* idles, and stops and joins the observer when a signal arrives.          *)
(*                                                                         *)
(* Strings are tuples of one-character strings, so that basename,          *)
(* startswith and split are computed, not assumed.                         *)
(*                                                                         *)
(* Threads: the main thread (mainpc), in which Python also runs the signal *)
(* handlers, and the observer's dispatcher thread (observer, cbpc), a      *)
(* daemon thread: it is abandoned wherever it stands when the main thread  *)
(* leaves the interpreter.                                                 *)
(***************************************************************************)
EXTENDS Integers, Sequences, FiniteSets, TLC

VARIABLES
    config_path,   \* args.config_path, the semicolon-separated watch paths
    timeout,       \* ConfigmapHandler.timeout = int(args.pgbouncer_reload_timeout)
    verbose,       \* args.verbose, the number of -v repetitions
    loglvl,        \* the level of the logger 'configmap-reload'
    mainpc,        \* position of the main thread
    installed,     \* signals whose handler is exit_signal_handler
    paths,         \* entries of config_path.split(";") the loop has not visited yet
    watches,       \* paths given to observer.schedule
    warned,        \* paths the loop skipped with a warning
    observer,      \* the dispatcher thread: "new", "alive", "finished", "dead"
    stopped,       \* observer.stop() has been called
    pending,       \* exit status of the SystemExit the finally clause holds, else -1
    exitcode,      \* exit status of the process, -1 while it runs
    cbpc,          \* position of the dispatcher thread inside on_created
    event,         \* the event on_created is handling, NoEvent when it is idle
    elapsed,       \* time units slept so far for the event being handled
    connection,    \* local of pgbouncer_reload: "None", "open", "closed"
    cursor,        \* local of pgbouncer_reload: "None", "open", "closed"
    log,           \* what the latest reload attempt logged: "failed", "reloaded"
    faults,        \* the calls of the latest reload attempt that raised
    calls,         \* the calls the latest reload attempt has made, in order
    now,           \* time units the dispatcher thread has slept in all
    dispatched,    \* creation events delivered to on_created so far
    qualifying,    \* of these, the non-directory events named ..data*
    attempts,      \* calls of pgbouncer_reload so far
    reloads,       \* RELOAD; statements pgbouncer has executed so far
    openConns      \* connections pgbouncer holds open for this process

vars == <<config_path, timeout, verbose, loglvl, mainpc, installed, paths, watches, warned,
          observer, stopped, pending, exitcode, cbpc, event, elapsed, connection, cursor, log, faults,
          calls, now, dispatched, qualifying, attempts, reloads, openConns>>

mainVars == <<mainpc, installed, paths, watches, warned, stopped, pending, exitcode>>
cbVars == <<cbpc, event, elapsed, connection, cursor, log, faults, calls, now,
            dispatched, qualifying, attempts, reloads, openConns>>
argVars == <<config_path, timeout, verbose, loglvl>>

\* The number of creation events the watch mechanism delivers in one run.
MaxEvents == 2

\* The largest number of -v repetitions.
MaxVerbose == 4

----------------------------------------------------------------------------
(* Strings *)

\* The position of the last "/" of p, 0 when there is none.
LastSlash(p) ==
    LET S == {i \in 1..Len(p) : p[i] = "/"}
    IN IF S = {} THEN 0 ELSE CHOOSE i \in S : \A j \in S : j <= i

\* os.path.basename: what follows the last "/".
basename(p) == SubSeq(p, LastSlash(p) + 1, Len(p))

\* A test for the marker anywhere in the name, not at its start.
startswith_anywhere(s, prefix) ==
    \E i \in 1..(Len(s) - Len(prefix) + 1) :
        SubSeq(s, i, i + Len(prefix) - 1) = prefix

\* str.startswith
startswith(s, prefix) ==
    /\ Len(s) >= Len(prefix)
    /\ SubSeq(s, 1, Len(prefix)) = prefix

\* The literal '..data'.
Marker == <<".", ".", "d", "a", "t", "a">>

\* str.split(sep): the pieces between the separators, empty pieces included.
RECURSIVE split(_, _)
split(s, sep) ==
    LET S == {i \in 1..Len(s) : s[i] = sep}
    IN IF S = {} THEN <<s>>
       ELSE LET i == CHOOSE k \in S : \A j \in S : k <= j
            IN <<SubSeq(s, 1, i - 1)>> \o split(SubSeq(s, i + 1, Len(s)), sep)

----------------------------------------------------------------------------
(* The environment: the filesystem at startup and the inputs *)

\* The directories that exist: /p and /q. /f is a regular file, /m is missing.
Dirs == { <<"/", "p">>, <<"/", "q">> }

\* os.path.exists: true of the regular file /f as well.
isdir_exists(path) == path \in Dirs \cup { <<"/", "f">> }

\* os.path.isdir
isdir(path) == path \in Dirs

\* Values of --config-path: "/p;/m"  "/m"  "/p"  ""  "/p;/q"  "/m;/f"
\* "/p;/p"  "/f;/q;"
ConfigPaths ==
    { <<"/", "p", ";", "/", "m">>,
      <<"/", "m">>,
      <<"/", "p">>,
      << >>,
      <<"/", "p", ";", "/", "q">>,
      <<"/", "m", ";", "/", "f">>,
      <<"/", "p", ";", "/", "p">>,
      <<"/", "f", ";", "/", "q", ";">> }

\* Values of --pgbouncer-reload-timeout after int().
Timeouts == {0, 1, 2}

\* Paths of creation events: "/p/..data"  "/p/..data_tmp"  "..data"
\* "/p/..dat"  "/p/.data"  "/..data/x"  "/p/x..data"  "/p/..data/"
EventPaths ==
    { <<"/", "p", "/", ".", ".", "d", "a", "t", "a">>,
      <<"/", "p", "/", ".", ".", "d", "a", "t", "a", "_", "t", "m", "p">>,
      <<".", ".", "d", "a", "t", "a">>,
      <<"/", "p", "/", ".", ".", "d", "a", "t">>,
      <<"/", "p", "/", ".", "d", "a", "t", "a">>,
      <<"/", ".", ".", "d", "a", "t", "a", "/", "x">>,
      <<"/", "p", "/", "x", ".", ".", "d", "a", "t", "a">>,
      <<"/", "p", "/", ".", ".", "d", "a", "t", "a", "/">> }

Events == [src_path : EventPaths, is_directory : BOOLEAN]

NoEvent == [src_path |-> << >>, is_directory |-> TRUE]

Signals == {"SIGINT", "SIGTERM"}

----------------------------------------------------------------------------
(* The log level *)

\* logging.ERROR
ERROR == 40

\* logging.DEBUG
DEBUG == 10

\* max of two numbers
max(a, b) == IF a >= b THEN a ELSE b

\* A level computed without the floor at DEBUG.
LogLevel_nofloor(v) == IF v > 0 THEN ERROR - 10 * v ELSE ERROR

\* loglvl as main() computes it from args.verbose.
LogLevel(v) == IF v > 0 THEN max(ERROR - 10 * v, DEBUG) ELSE ERROR

----------------------------------------------------------------------------
(* Initial state: the arguments are parsed and the logger is configured, with
   the default verbosity; nothing else has run *)

Init ==
    /\ config_path \in ConfigPaths
    /\ timeout \in Timeouts
    /\ verbose = 0
    /\ loglvl = LogLevel(verbose)
    /\ mainpc = "install_sigint"
    /\ installed = {}
    /\ paths = << >>
    /\ watches = {}
    /\ warned = {}
    /\ observer = "new"
    /\ stopped = FALSE
    /\ pending = -1
    /\ exitcode = -1
    /\ cbpc = "idle"
    /\ event = NoEvent
    /\ elapsed = 0
    /\ connection = "None"
    /\ cursor = "None"
    /\ log = {}
    /\ faults = {}
    /\ calls = << >>
    /\ now = 0
    /\ dispatched = 0
    /\ qualifying = 0
    /\ attempts = 0
    /\ reloads = 0
    /\ openConns = 0

----------------------------------------------------------------------------
(* The main thread *)

\* The process runs until the main thread has left the interpreter.
Running == mainpc # "exited"

\* signal.signal(signal.SIGINT, exit_signal_handler)
InstallSigint ==
    /\ mainpc = "install_sigint"
    /\ installed' = installed \cup {"SIGINT"}
    /\ mainpc' = "install_sigterm"
    /\ UNCHANGED <<paths, watches, warned, stopped, observer>>
    /\ UNCHANGED <<pending, exitcode>>
    /\ UNCHANGED cbVars
    /\ UNCHANGED argVars

\* signal.signal(signal.SIGTERM, exit_signal_handler)
InstallSigterm ==
    /\ mainpc = "install_sigterm"
    /\ installed' = installed \cup {"SIGTERM"}
    /\ mainpc' = "run"
    /\ UNCHANGED <<paths, watches, warned, stopped, observer>>
    /\ UNCHANGED <<pending, exitcode>>
    /\ UNCHANGED cbVars
    /\ UNCHANGED argVars

\* run(args) up to the for loop: Observer(), ConfigmapHandler(...), and the split.
RunBegin ==
    /\ mainpc = "run"
    /\ paths' = split(config_path, ";")
    /\ mainpc' = "schedule"
    /\ UNCHANGED <<installed, watches, warned, stopped, observer>>
    /\ UNCHANGED <<pending, exitcode>>
    /\ UNCHANGED cbVars
    /\ UNCHANGED argVars

\* One iteration of the for loop over the watch paths.
SchedulePath ==
    /\ mainpc = "schedule"
    /\ paths # << >>
    /\ IF isdir(Head(paths))
       THEN /\ watches' = watches \cup {Head(paths)}
            /\ warned' = warned
       ELSE /\ warned' = warned \cup {Head(paths)}
            /\ watches' = watches
    /\ paths' = Tail(paths)
    /\ UNCHANGED <<mainpc, installed, stopped, observer>>
    /\ UNCHANGED <<pending, exitcode>>
    /\ UNCHANGED cbVars
    /\ UNCHANGED argVars

\* observer.start(), after the loop has visited every path.
ObserverStart ==
    /\ mainpc = "schedule"
    /\ paths = << >>
    /\ observer' = "alive"
    /\ mainpc' = "entering"
    /\ UNCHANGED <<installed, paths, watches, warned, stopped>>
    /\ UNCHANGED <<pending, exitcode>>
    /\ UNCHANGED cbVars
    /\ UNCHANGED argVars

\* log.info("Entering event loop...") and entry into the try block.
EnterLoop ==
    /\ mainpc = "entering"
    /\ mainpc' = "loop"
    /\ UNCHANGED <<installed, paths, watches, warned, stopped, observer>>
    /\ UNCHANGED <<pending, exitcode>>
    /\ UNCHANGED cbVars
    /\ UNCHANGED argVars

\* except KeyboardInterrupt: pass. The idle loop ends and the finally clause
\* runs with no exception pending.
KeyboardInterrupt ==
    /\ mainpc = "loop"
    /\ mainpc' = "stop"
    /\ UNCHANGED <<installed, paths, watches, warned, stopped, observer>>
    /\ UNCHANGED <<pending, exitcode>>
    /\ UNCHANGED cbVars
    /\ UNCHANGED argVars

\* A handler that ends with sys.exit(1).
exit_signal_handler_status1(sig) ==
    /\ Running
    /\ sig \in installed
    /\ IF mainpc = "loop"
       THEN /\ mainpc' = "stop"
            /\ pending' = 1
            /\ exitcode' = exitcode
       ELSE /\ mainpc' = "exited"
            /\ pending' = pending
            /\ exitcode' = 1
    /\ UNCHANGED <<installed, paths, watches, warned, stopped, observer>>
    /\ UNCHANGED cbVars
    /\ UNCHANGED argVars

\* exit_signal_handler: Python runs it in the main thread, wherever that is,
\* and sys.exit() raises SystemExit there. Inside the try block (the idle
\* loop) the finally clause runs next; anywhere else, the finally clause
\* itself included, nothing catches SystemExit and the interpreter exits.
exit_signal_handler(sig) ==
    /\ Running
    /\ sig \in installed
    /\ IF mainpc = "loop"
       THEN /\ mainpc' = "stop"
            /\ pending' = 0
            /\ exitcode' = exitcode
       ELSE /\ mainpc' = "exited"
            /\ pending' = pending
            /\ exitcode' = 0
    /\ UNCHANGED <<installed, paths, watches, warned, stopped, observer>>
    /\ UNCHANGED cbVars
    /\ UNCHANGED argVars

\* finally: observer.stop() sets the observer's stop event and returns.
ObserverStop ==
    /\ mainpc = "stop"
    /\ stopped' = TRUE
    /\ mainpc' = "join"
    /\ UNCHANGED <<installed, paths, watches, warned, observer>>
    /\ UNCHANGED <<pending, exitcode>>
    /\ UNCHANGED cbVars
    /\ UNCHANGED argVars

\* A join that returns without waiting for the dispatcher thread.
ObserverJoin_nowait ==
    /\ mainpc = "join"
    /\ mainpc' = "joined"
    /\ UNCHANGED <<installed, paths, watches, warned, stopped, observer>>
    /\ UNCHANGED <<pending, exitcode>>
    /\ UNCHANGED cbVars
    /\ UNCHANGED argVars

\* observer.join() returns once the dispatcher thread has ended.
ObserverJoin ==
    /\ mainpc = "join"
    /\ observer \in {"finished", "dead"}
    /\ mainpc' = "joined"
    /\ UNCHANGED <<installed, paths, watches, warned, stopped, observer>>
    /\ UNCHANGED <<pending, exitcode>>
    /\ UNCHANGED cbVars
    /\ UNCHANGED argVars

\* The finally clause is done. A pending SystemExit leaves run() and main()
\* and the interpreter exits with its status (sys.exit() without an argument:
\* 0); after a KeyboardInterrupt run() and main() return, which is status 0.
ProcessExit ==
    /\ mainpc = "joined"
    /\ mainpc' = "exited"
    /\ exitcode' = IF pending = -1 THEN 0 ELSE pending
    /\ UNCHANGED <<installed, paths, watches, warned, stopped, observer, pending>>
    /\ UNCHANGED cbVars
    /\ UNCHANGED argVars

----------------------------------------------------------------------------
(* The dispatcher thread: ConfigmapHandler *)

\* The events of Events the docstring of on_created names: files whose name
\* starts with "..data".  "/p/..data"  "/p/..data_tmp"  "..data"
MarkerFileEvents ==
    { [src_path |-> <<"/", "p", "/", ".", ".", "d", "a", "t", "a">>,
       is_directory |-> FALSE],
      [src_path |-> <<"/", "p", "/", ".", ".", "d", "a", "t", "a", "_", "t", "m", "p">>,
       is_directory |-> FALSE],
      [src_path |-> <<".", ".", "d", "a", "t", "a">>,
       is_directory |-> FALSE] }

\* What every step of the dispatcher thread leaves alone.
CallbackFrame ==
    /\ UNCHANGED mainVars
    /\ UNCHANGED argVars

\* An on_created that coalesces: once a reload has been attempted, further
\* events are dropped.
on_created_coalesce(e) ==
    /\ Running
    /\ observer = "alive"
    /\ ~stopped
    /\ watches # {}
    /\ cbpc = "idle"
    /\ dispatched < MaxEvents
    /\ dispatched' = dispatched + 1
    /\ qualifying' = IF e \in MarkerFileEvents THEN qualifying + 1 ELSE qualifying
    /\ IF ~e.is_directory /\ startswith(basename(e.src_path), Marker) /\ attempts = 0
       THEN /\ cbpc' = "sleep"
            /\ event' = e
       ELSE /\ cbpc' = "idle"
            /\ event' = NoEvent
    /\ elapsed' = 0
    /\ UNCHANGED <<connection, cursor, log, faults, attempts, reloads, openConns,
                   observer>>
    /\ UNCHANGED <<calls, now>>
    /\ CallbackFrame

\* The observer delivers a creation event to on_created, which returns at
\* once unless the event is a file named ..data*, and then starts its sleep.
\* Events come only from a scheduled watch, and only while the dispatcher
\* thread runs and has not been told to stop.
on_created(e) ==
    /\ Running
    /\ observer = "alive"
    /\ ~stopped
    /\ watches # {}
    /\ cbpc = "idle"
    /\ dispatched < MaxEvents
    /\ dispatched' = dispatched + 1
    /\ qualifying' = IF e \in MarkerFileEvents THEN qualifying + 1 ELSE qualifying
    /\ IF ~e.is_directory /\ startswith(basename(e.src_path), Marker)
       THEN /\ cbpc' = "sleep"
            /\ event' = e
       ELSE /\ cbpc' = "idle"
            /\ event' = NoEvent
    /\ elapsed' = 0
    /\ UNCHANGED <<connection, cursor, log, faults, attempts, reloads, openConns,
                   observer>>
    /\ UNCHANGED <<calls, now>>
    /\ CallbackFrame

\* One time unit of time.sleep(self.timeout) passes.
SleepTick ==
    /\ Running
    /\ cbpc = "sleep"
    /\ elapsed < timeout
    /\ elapsed' = elapsed + 1
    /\ UNCHANGED <<cbpc, event, connection, cursor, log, faults, dispatched,
                   qualifying, attempts, reloads, openConns, observer>>
    /\ now' = now + 1
    /\ calls' = calls
    /\ CallbackFrame

\* on_created calling pgbouncer_reload without the sleep before it.
pgbouncer_reload_nosleep ==
    /\ Running
    /\ cbpc = "sleep"
    /\ attempts' = attempts + 1
    /\ connection' = "None"
    /\ cursor' = "None"
    /\ log' = {}
    /\ faults' = {}
    /\ cbpc' = "connect"
    /\ UNCHANGED <<event, elapsed, dispatched, qualifying, reloads, openConns, observer>>
    /\ calls' = << >>
    /\ now' = now
    /\ CallbackFrame

\* A debounce measured from the first event of a burst, not from each event:
\* once timeout time units have been slept, later events reload at once.
pgbouncer_reload_shared_timer ==
    /\ Running
    /\ cbpc = "sleep"
    /\ now >= timeout
    /\ attempts' = attempts + 1
    /\ connection' = "None"
    /\ cursor' = "None"
    /\ log' = {}
    /\ faults' = {}
    /\ cbpc' = "connect"
    /\ UNCHANGED <<event, elapsed, dispatched, qualifying, reloads, openConns, observer>>
    /\ calls' = << >>
    /\ now' = now
    /\ CallbackFrame

\* time.sleep returns after timeout time units and on_created calls
\* pgbouncer_reload, which starts with both locals None.
pgbouncer_reload ==
    /\ Running
    /\ cbpc = "sleep"
    /\ elapsed >= timeout
    /\ attempts' = attempts + 1
    /\ connection' = "None"
    /\ cursor' = "None"
    /\ log' = {}
    /\ faults' = {}
    /\ cbpc' = "connect"
    /\ UNCHANGED <<event, elapsed, dispatched, qualifying, reloads, openConns, observer>>
    /\ calls' = << >>
    /\ now' = now
    /\ CallbackFrame

\* A try block without the except clause: the exception leaves on_created and
\* ends the dispatcher thread.
Except_uncaught ==
    /\ faults' = faults \cup {cbpc}
    /\ log' = log
    /\ cbpc' = "raised"
    /\ observer' = "dead"

\* except (Exception, psycopg2.Error): log the error, go on to the finally clause.
Except ==
    /\ faults' = faults \cup {cbpc}
    /\ log' = log \cup {"failed"}
    /\ cbpc' = "finally_cursor"
    /\ observer' = observer

\* psycopg2.connect(...)
Connect(ok) ==
    /\ Running
    /\ cbpc = "connect"
    /\ IF ok
       THEN /\ connection' = "open"
            /\ openConns' = openConns + 1
            /\ cbpc' = "set_isolation_level"
            /\ UNCHANGED <<log, faults, observer>>
       ELSE /\ Except
            /\ UNCHANGED <<connection, openConns>>
    /\ UNCHANGED <<event, elapsed, cursor, dispatched, qualifying, attempts, reloads>>
    /\ calls' = Append(calls, cbpc)
    /\ now' = now
    /\ CallbackFrame

\* connection.set_isolation_level(0)
SetIsolationLevel(ok) ==
    /\ Running
    /\ cbpc = "set_isolation_level"
    /\ IF ok
       THEN /\ cbpc' = "cursor"
            /\ UNCHANGED <<log, faults, observer>>
       ELSE Except
    /\ UNCHANGED <<event, elapsed, connection, cursor, dispatched, qualifying,
                   attempts, reloads, openConns>>
    /\ calls' = Append(calls, cbpc)
    /\ now' = now
    /\ CallbackFrame

\* cursor = connection.cursor()
OpenCursor(ok) ==
    /\ Running
    /\ cbpc = "cursor"
    /\ IF ok
       THEN /\ cursor' = "open"
            /\ cbpc' = "execute"
            /\ UNCHANGED <<log, faults, observer>>
       ELSE /\ Except
            /\ cursor' = cursor
    /\ UNCHANGED <<event, elapsed, connection, dispatched, qualifying, attempts,
                   reloads, openConns>>
    /\ calls' = Append(calls, cbpc)
    /\ now' = now
    /\ CallbackFrame

\* cursor.execute("RELOAD;")
Execute(ok) ==
    /\ Running
    /\ cbpc = "execute"
    /\ IF ok
       THEN /\ reloads' = reloads + 1
            /\ cbpc' = "commit"
            /\ UNCHANGED <<log, faults, observer>>
       ELSE /\ Except
            /\ reloads' = reloads
    /\ UNCHANGED <<event, elapsed, connection, cursor, dispatched, qualifying,
                   attempts, openConns>>
    /\ calls' = Append(calls, cbpc)
    /\ now' = now
    /\ CallbackFrame

\* connection.commit(), the last statement of the try block.
Commit(ok) ==
    /\ Running
    /\ cbpc = "commit"
    /\ IF ok
       THEN /\ cbpc' = "finally_cursor"
            /\ UNCHANGED <<log, faults, observer>>
       ELSE Except
    /\ UNCHANGED <<event, elapsed, connection, cursor, dispatched, qualifying,
                   attempts, reloads, openConns>>
    /\ calls' = Append(calls, cbpc)
    /\ now' = now
    /\ CallbackFrame

\* An exception leaves the finally clause, pgbouncer_reload and on_created:
\* nothing in the dispatcher thread catches it, and the thread ends.
Raise ==
    /\ faults' = faults \cup {IF cbpc = "finally_cursor" THEN "cursor.close"
                                                        ELSE "connection.close"}
    /\ cbpc' = "raised"
    /\ observer' = "dead"

\* A finally clause that calls cursor.close() without the test of cursor:
\* on None the call itself raises.
CloseCursor_unguarded(ok) ==
    /\ Running
    /\ cbpc = "finally_cursor"
    /\ IF cursor = "open" /\ ok
       THEN /\ cursor' = "closed"
            /\ cbpc' = "finally_connection"
            /\ UNCHANGED <<faults, observer>>
       ELSE /\ Raise
            /\ cursor' = cursor
    /\ UNCHANGED <<event, elapsed, connection, log, dispatched, qualifying, attempts,
                   reloads, openConns>>
    /\ calls' = Append(calls, "cursor.close")
    /\ now' = now
    /\ CallbackFrame

\* finally: if cursor: cursor.close()
CloseCursor(ok) ==
    /\ Running
    /\ cbpc = "finally_cursor"
    /\ IF cursor = "open"
       THEN IF ok
            THEN /\ cursor' = "closed"
                 /\ cbpc' = "finally_connection"
                 /\ UNCHANGED <<faults, observer>>
            ELSE /\ Raise
                 /\ cursor' = cursor
       ELSE /\ ok
            /\ cbpc' = "finally_connection"
            /\ UNCHANGED <<cursor, faults, observer>>
    /\ UNCHANGED <<event, elapsed, connection, log, dispatched, qualifying, attempts,
                   reloads, openConns>>
    /\ calls' = IF cursor = "open" THEN Append(calls, "cursor.close") ELSE calls
    /\ now' = now
    /\ CallbackFrame

\* pgbouncer_reload and on_created return: the locals are gone and the
\* dispatcher thread is ready for the next event.
Return ==
    /\ cbpc' = "idle"
    /\ event' = NoEvent
    /\ elapsed' = 0
    /\ cursor' = "None"

\* finally: if connection: connection.close() and the two log lines; then return.
CloseConnection(ok) ==
    /\ Running
    /\ cbpc = "finally_connection"
    /\ IF connection = "open"
       THEN IF ok
            THEN /\ openConns' = openConns - 1
                 /\ log' = log \cup {"reloaded"}
                 /\ connection' = "None"
                 /\ Return
                 /\ UNCHANGED <<faults, observer>>
            ELSE /\ Raise
                 /\ UNCHANGED <<event, elapsed, connection, cursor, log, openConns>>
       ELSE /\ ok
            /\ Return
            /\ UNCHANGED <<connection, log, faults, openConns, observer>>
    /\ UNCHANGED <<dispatched, qualifying, attempts, reloads>>
    /\ calls' = IF connection = "open" THEN Append(calls, "connection.close")
                                     ELSE calls
    /\ now' = now
    /\ CallbackFrame

\* The dispatcher thread's loop sees the stop event between two events and ends.
DispatcherEnds ==
    /\ Running
    /\ observer = "alive"
    /\ stopped
    /\ cbpc = "idle"
    /\ observer' = "finished"
    /\ UNCHANGED cbVars
    /\ CallbackFrame

----------------------------------------------------------------------------

Next ==
    \/ InstallSigint
    \/ InstallSigterm
    \/ RunBegin
    \/ SchedulePath
    \/ ObserverStart
    \/ EnterLoop
    \/ KeyboardInterrupt
    \/ \E sig \in Signals : exit_signal_handler(sig)
    \/ ObserverStop
    \/ ObserverJoin
    \/ ProcessExit
    \/ \E e \in Events : on_created(e)
    \/ SleepTick
    \/ pgbouncer_reload
    \/ \E ok \in BOOLEAN : Connect(ok)
    \/ \E ok \in BOOLEAN : SetIsolationLevel(ok)
    \/ \E ok \in BOOLEAN : OpenCursor(ok)
    \/ \E ok \in BOOLEAN : Execute(ok)
    \/ \E ok \in BOOLEAN : Commit(ok)
    \/ \E ok \in BOOLEAN : CloseCursor(ok)
    \/ \E ok \in BOOLEAN : CloseConnection(ok)
    \/ DispatcherEnds

Spec == Init /\ [][Next]_vars

----------------------------------------------------------------------------
(* The configuration of the logger, for every verbosity *)

\* The arguments are parsed, with any number of -v, and the logger has not
\* been given a level yet (logging.NOTSET, 0).
InitLevel ==
    /\ config_path \in ConfigPaths
    /\ timeout \in Timeouts
    /\ verbose \in 0..MaxVerbose
    /\ loglvl = 0
    /\ mainpc = "configure_log"
    /\ installed = {}
    /\ paths = << >>
    /\ watches = {}
    /\ warned = {}
    /\ observer = "new"
    /\ stopped = FALSE
    /\ pending = -1
    /\ exitcode = -1
    /\ cbpc = "idle"
    /\ event = NoEvent
    /\ elapsed = 0
    /\ connection = "None"
    /\ cursor = "None"
    /\ log = {}
    /\ faults = {}
    /\ calls = << >>
    /\ now = 0
    /\ dispatched = 0
    /\ qualifying = 0
    /\ attempts = 0
    /\ reloads = 0
    /\ openConns = 0

\* loglvl = ...; log.setLevel(loglvl)
setLevel ==
    /\ mainpc = "configure_log"
    /\ loglvl' = LogLevel(verbose)
    /\ mainpc' = "install_sigint"
    /\ UNCHANGED <<config_path, timeout, verbose>>
    /\ UNCHANGED <<installed, paths, watches, warned, stopped, observer>>
    /\ UNCHANGED <<pending, exitcode>>
    /\ UNCHANGED cbVars

NextLevel == setLevel

SpecLevel == InitLevel /\ [][NextLevel]_vars

\* The dispatcher thread keeps running while the process does: a sleep that
\* is due returns, and time passes while it sleeps.
SpecFair ==
    /\ Init
    /\ [][Next]_vars
    /\ WF_vars(SleepTick)
    /\ WF_vars(pgbouncer_reload)

\* Every call the two threads make returns: the sleep, each psycopg2 call,
\* stop and join, and the dispatcher thread's loop sees the stop event.
SpecLive ==
    /\ Init
    /\ [][Next]_vars
    /\ WF_vars(ObserverStop)
    /\ WF_vars(ObserverJoin)
    /\ WF_vars(ProcessExit)
    /\ WF_vars(SleepTick)
    /\ WF_vars(pgbouncer_reload)
    /\ WF_vars(\E ok \in BOOLEAN : Connect(ok))
    /\ WF_vars(\E ok \in BOOLEAN : SetIsolationLevel(ok))
    /\ WF_vars(\E ok \in BOOLEAN : OpenCursor(ok))
    /\ WF_vars(\E ok \in BOOLEAN : Execute(ok))
    /\ WF_vars(\E ok \in BOOLEAN : Commit(ok))
    /\ WF_vars(\E ok \in BOOLEAN : CloseCursor(ok))
    /\ WF_vars(\E ok \in BOOLEAN : CloseConnection(ok))
    /\ WF_vars(DispatcherEnds)

----------------------------------------------------------------------------
(* Properties *)

\* The positions of the dispatcher thread inside pgbouncer_reload.
ReloadSteps ==
    {"connect", "set_isolation_level", "cursor", "execute", "commit",
     "finally_cursor", "finally_connection"}

\* The calls inside the try block.
TrySteps == {"connect", "set_isolation_level", "cursor", "execute", "commit"}

\* C1: an event that is flagged as a directory, or whose base name does not
\* start with ..data, starts no sleep and no reload: whenever on_created is
\* sleeping or reloading, it does so for a ..data* file event, and there are
\* never more reload attempts than such events.
C1_OnlyMarkerFilesReload ==
    /\ cbpc # "idle" => event \in MarkerFileEvents
    /\ attempts <= qualifying

\* C1 witness: two events were delivered, neither a ..data* file, and
\* on_created is idle again with no reload attempted.
C1_Witness ==
    /\ dispatched = 2
    /\ qualifying = 0
    /\ cbpc = "idle"
    /\ attempts = 0

\* C2: a reload attempt is under way only when at least timeout time units
\* have passed since on_created began handling the event.
C2_ReloadAfterDebounce ==
    cbpc \in ReloadSteps => elapsed >= timeout

\* C2 witness: with a timeout of 2, RELOAD; is about to be executed after a
\* sleep of 2.
C2_Witness ==
    /\ timeout = 2
    /\ cbpc = "execute"
    /\ elapsed = 2

\* C3: a reload attempt whose failure is one of connect, set_isolation_level,
\* cursor, execute or commit does not end the dispatcher thread, and a
\* qualifying event that arrives after such an attempt gets its own reload
\* attempt once its sleep is over, unless the process exits first.
C3_FailedReloadKeepsWatching ==
    /\ []((faults # {} /\ faults \subseteq TrySteps) => observer # "dead")
    /\ \A n \in 0..MaxEvents :
         (cbpc = "sleep" /\ attempts = n /\ faults # {} /\ faults \subseteq TrySteps)
            ~> (attempts = n + 1 \/ ~Running)

\* C3 witness: the first attempt failed before RELOAD; was executed, the
\* dispatcher thread lives, and the second event's attempt has begun.
C3_Witness ==
    /\ attempts = 2
    /\ cbpc = "connect"
    /\ reloads = 0
    /\ observer = "alive"

\* C4: outside a reload attempt pgbouncer holds no connection of this process,
\* whichever single call before connection.close() raised in the latest attempt.
C4_ConnectionReleased ==
    (/\ Cardinality(faults) <= 1
     /\ "connection.close" \notin faults
     /\ cbpc \notin ReloadSteps) => openConns = 0

\* C5: every qualifying event that on_created has finished handling made
\* exactly one reload attempt, the one being handled has made none while it
\* sleeps and one afterwards; an attempt executes RELOAD; at most once, and
\* exactly once for a single event when no call fails.
C5_OneAttemptPerEvent ==
    /\ cbpc = "sleep" => attempts + 1 = qualifying
    /\ cbpc # "sleep" => attempts = qualifying
    /\ reloads <= attempts
    /\ (cbpc = "idle" /\ qualifying = 1 /\ faults = {}) => reloads = 1

\* C5 witness: two qualifying events handled, the first attempt failed before
\* RELOAD; and the second succeeded.
C5_Witness ==
    /\ cbpc = "idle"
    /\ dispatched = 2
    /\ qualifying = 2
    /\ attempts = 2
    /\ reloads = 1
    /\ faults = {}

\* The entries of the semicolon-separated list.
Entries == {split(config_path, ";")[i] : i \in 1..Len(split(config_path, ";"))}

\* C6: the observer starts only after the loop over the entries, and from
\* then on the watches are exactly the entries that are existing directories
\* and the warnings exactly the other entries; for "/p;/m" that is a watch on
\* /p and a warning for /m.
C6_WatchesAreTheDirectories ==
    /\ mainpc \in {"install_sigint", "install_sigterm", "run", "schedule"}
          => observer = "new"
    /\ observer # "new" =>
          /\ watches = Entries \cap Dirs
          /\ warned = Entries \ Dirs
    /\ (observer # "new" /\ config_path = <<"/", "p", ";", "/", "m">>) =>
          /\ watches = { <<"/", "p">> }
          /\ warned = { <<"/", "m">> }

\* C6 witness: "/p;/m" is configured, the observer runs, and an event from
\* the one watch is being handled.
C6_Witness ==
    /\ config_path = <<"/", "p", ";", "/", "m">>
    /\ observer = "alive"
    /\ mainpc = "loop"
    /\ watches = { <<"/", "p">> }
    /\ warned = { <<"/", "m">> }
    /\ cbpc = "sleep"

\* C7: when no entry is an existing directory, the observer is not started
\* and the idle loop is not entered.
C7_NoValidPathIsFatal ==
    Entries \cap Dirs = {} => (observer = "new" /\ mainpc \notin {"entering", "loop"})

\* C8: once observer.stop() and observer.join() have returned, on_created
\* is not running, and nothing of it happens from then on: no event is
\* delivered, no sleep, no connection, no RELOAD;.
C8_NoCallbackAfterJoin ==
    /\ [](mainpc = "joined" => (cbpc \in {"idle", "raised"} /\ observer # "alive"))
    /\ [][mainpc = "joined" => UNCHANGED cbVars]_vars

\* C8 witness: join has returned after an event's reload attempt, which
\* the dispatcher thread finished before it ended.
C8_Witness ==
    /\ mainpc = "joined"
    /\ observer = "finished"
    /\ attempts = 1
    /\ reloads = 1

\* C9: when the process exits after the observer was started, the observer
\* has been stopped and its thread has ended.
C9_ExitAfterStopAndJoin ==
    (mainpc = "exited" /\ observer # "new") =>
        (stopped /\ observer \in {"finished", "dead"})

\* C10: when the process exits after the shutdown sequence has begun, no
\* reload attempt is cut off: on_created is not between connect and the
\* closing of the connection.
C10_ExitNeverCutsReload ==
    (mainpc = "exited" /\ stopped) => cbpc \notin ReloadSteps

\* C11: once a signal or a KeyboardInterrupt has ended the idle loop, the
\* process terminates, whatever on_created is doing at that moment, and
\* whenever the process has terminated its exit status is 0 (a signal
\* outside the idle loop terminates it in the same step).
C11_GracefulTermination ==
    /\ [](mainpc = "exited" => exitcode = 0)
    /\ mainpc = "stop" ~> (mainpc = "exited" /\ exitcode = 0)

\* C11 witness: the signal came during the sleep for a qualifying event, the
\* shutdown waited for its reload, and the process has exited with status 0.
C11_Witness ==
    /\ mainpc = "exited"
    /\ exitcode = 0
    /\ pending = 0
    /\ stopped
    /\ observer = "finished"
    /\ dispatched = 1
    /\ attempts = 1
    /\ reloads = 1

\* C12: an attempt logs "Pgbouncer gracefully reloaded." only when no call
\* of its try block raised, and never together with "Failed to RELOAD
\* pgbouncer".
C12_SuccessLoggedOnlyOnSuccess ==
    "reloaded" \in log => (faults \cap TrySteps = {} /\ "failed" \notin log)

\* C13: once the level is set it is ERROR (40) for verbosity 0, WARNING
\* (30) for 1, INFO (20) for 2 and DEBUG (10) for 3 and for every larger
\* verbosity.
C13_VerbosityToLevel ==
    mainpc # "configure_log" =>
        /\ verbose = 0 => loglvl = 40
        /\ verbose = 1 => loglvl = 30
        /\ verbose = 2 => loglvl = 20
        /\ verbose >= 3 => loglvl = 10

\* C13 witness: four repetitions of -v, and the level set is DEBUG.
C13_Witness ==
    /\ mainpc = "install_sigint"
    /\ verbose = 4
    /\ loglvl = 10

\* The calls of pgbouncer_reload in the order of its text.
Order ==
    <<"connect", "set_isolation_level", "cursor", "execute", "commit",
      "cursor.close", "connection.close">>

\* The place of a call in that order.
Pos(c) == CHOOSE i \in 1..Len(Order) : Order[i] = c

\* The calls made so far by the latest attempt, as a set.
Called == {calls[i] : i \in 1..Len(calls)}

\* C14: the calls of an attempt follow the fixed order, each at most once;
\* an attempt in which nothing raised made all seven; RELOAD; is executed
\* only after connect, set_isolation_level and cursor succeeded, commit only
\* after execute succeeded; and after a failed connect nothing else is
\* called, no close either.
C14_StepOrder ==
    /\ \A i, j \in 1..Len(calls) : i < j => Pos(calls[i]) < Pos(calls[j])
    /\ (cbpc = "idle" /\ attempts > 0 /\ faults = {}) => calls = Order
    /\ "execute" \in Called =>
          /\ {"connect", "set_isolation_level", "cursor"} \subseteq Called
          /\ {"connect", "set_isolation_level", "cursor"} \cap faults = {}
    /\ "commit" \in Called => ("execute" \in Called /\ "execute" \notin faults)
    /\ "connect" \in faults => (calls = <<"connect">> /\ cbpc # "raised")

\* C14 witness: connect failed, the attempt is over with connect as its only
\* call, and on_created has returned.
C14_Witness ==
    /\ cbpc = "idle"
    /\ attempts = 1
    /\ faults = {"connect"}
    /\ calls = <<"connect">>
    /\ openConns = 0

\* C15: when at most one call of an attempt raised, whichever it is, no
\* exception left pgbouncer_reload and on_created: the dispatcher thread,
\* their caller, has not been ended by one.
C15_NoFailurePropagates ==
    Cardinality(faults) <= 1 => (cbpc # "raised" /\ observer # "dead")

\* C16: the one dispatcher thread handles one event at a time. At most one
\* connection is open, none while an event's sleep runs (the attempt before
\* it is over), every qualifying event delivered has its own sleep and
\* attempt, and the k-th reload attempt begins no earlier than k * timeout
\* time units of sleep after the first event.
C16_SerialReloads ==
    /\ openConns <= 1
    /\ cbpc = "sleep" => (openConns = 0 /\ attempts = qualifying - 1)
    /\ cbpc \in ReloadSteps => (attempts = qualifying /\ now >= attempts * timeout)
    /\ now <= qualifying * timeout

\* C16 witness: two qualifying events with a timeout of 2; the second reload
\* attempt begins after 4 time units of sleep, the first one's connection
\* closed.
C16_Witness ==
    /\ timeout = 2
    /\ qualifying = 2
    /\ attempts = 2
    /\ cbpc = "connect"
    /\ now = 4
    /\ openConns = 0
====
